---- MODULE Spec2Model ----
(***************************************************************************)
(* OAuth2 connector of backend/integrations (airtable.py, hubspot.py,      *)
(* notion.py) over the Redis helpers of backend/redis_client.py.          *)
(*                                                                         *)
(* Every handler is an asyncio coroutine.  A handler runs without          *)
(* interruption up to its next await; each Redis command and the token     *)
(* POST is one await.  asyncio.gather starts its awaitables as tasks that  *)
(* run independently; when one of them raises, gather raises in the        *)
(* handler at once and the remaining tasks keep running on the event loop. *)
(***************************************************************************)
EXTENDS Integers, Sequences, FiniteSets, Bags, TLC

VARIABLES module, redis, proc, issued, ops, faults, spent, posts, taken, call

vars == <<module, redis, proc, issued, ops, faults, spent, posts, taken, call>>

----------------------------------------------------------------------------
(* Bounds *)

NProcs == 2        \* handler invocations in flight at the same time
MaxOps == 4        \* handler invocations that reach an await, per behaviour
MaxSame == 2       \* of these, invocations of the same handler
MaxFaults == 1     \* Redis commands that raise and keys that expire, per behaviour
MaxIdLen == 3      \* characters of a user_id given to the state codec
MaxPages == 3      \* pages of the provider's listing
MaxTablePages == 2 \* pages of the listing of an Airtable base's tables

----------------------------------------------------------------------------
(* Program constants and input sets *)

TEMP_TTL_SECONDS == 600

Providers == {"airtable", "hubspot", "notion"}
Kinds == {"state", "verifier", "credentials"}
UserIds == {"", "u1"}
OrgIds == {"", "o1"}
\* The (user_id, org_id) arguments tried: one complete pair, and the pairs
\* with an empty member.
BeginInputs == {<<"u1", "o1">>, <<"", "o1">>, <<"u1", "">>}
TakeInputs == {<<"u1", "o1">>}

\* f"{provider}_{kind}:{org_id}:{user_id}"
Key(provider, kind, org_id, user_id) ==
    provider \o "_" \o kind \o ":" \o org_id \o ":" \o user_id

AllKeys == {Key(p, k, o, u) : p \in Providers, k \in Kinds, o \in OrgIds, u \in UserIds}

\* The keys of one module for a set of (user_id, org_id) pairs: a module only
\* touches keys that carry its own prefix.
KeysOf(provider, ids) == {Key(provider, k, a[2], a[1]) : k \in Kinds, a \in ids}

\* A Redis key is absent, or holds a value with a time to live (0: no expiry).
NoRecord == [present |-> FALSE]
Record(value, ttl) == [present |-> TRUE, value |-> value, ttl |-> ttl]

\* state_data = {"state": token_urlsafe(32), "user_id": ..., "org_id": ...}
StateData(state, user_id, org_id) ==
    [state |-> state, user_id |-> user_id, org_id |-> org_id]

\* The value of the state query parameter: how the JSON text was encoded and
\* the JSON value it holds.  "canonical" is the byte string the provider's
\* authorize_* builds, "variant" another string that decodes to the same JSON
\* value (json.loads accepts other spacing and extra members).
RawState(enc, kind, data) == [enc |-> enc, kind |-> kind, data |-> data]
NoState == RawState("absent", "none", StateData(0, "", ""))
GarbageState == RawState("garbage", "none", StateData(0, "", ""))
ArrayState == RawState("canonical", "array", StateData(0, "", ""))

\* A nonce no authorize_* call generates (nonces are numbered from 1).
ForgedNonce == 0 - 1
\* The nonces a callback can present: those authorize_* generated, and a forged one.
Nonces == (1..MaxSame) \cup {ForgedNonce}

Request(error, code, state) == [error |-> error, code |-> code, state |-> state]

\* Answers of the token endpoint.  Every exchange that succeeds yields an
\* access token of its own: the token of the k-th POST made for nonce n is
\* <<n, k>>.
TokenBody(n, k) == [access_token |-> <<n, k>>]
NoTokenBody == [token_type |-> "bearer"]
ErrorBody == [error |-> "invalid_grant"]
Response(status, body) == [kind |-> "response", status |-> status, body |-> body]
RequestError == [kind |-> "RequestError", status |-> 0, body |-> ErrorBody]
NoResponse == [kind |-> "none", status |-> 0, body |-> ErrorBody]
PostOutcomes(n, k) ==
    {Response(200, TokenBody(n, k)), Response(200, NoTokenBody),
     Response(401, ErrorBody), RequestError}

Null == [null |-> TRUE]
Result(status, detail) == [status |-> status, detail |-> detail]
Running == Result(0, "")

Task(cmd, kind) == <<cmd, kind>>

\* No call of the state codec or of get_items_* is under way.
NoCall == [op |-> "none"]

Idle ==
    [op |-> "none", prov |-> "none", user_id |-> "", org_id |-> "",
     state |-> 0, request |-> Request("", "", NoState),
     pc |-> "done", wait |-> {}, pend |-> {},
     saved_state |-> NoRecord, code_verifier |-> NoRecord,
     credentials |-> NoRecord, resp |-> NoResponse,
     result |-> Running, out |-> Null,
     nstore |-> 0, posted |-> FALSE, token |-> 0,
     replay |-> FALSE, stale |-> FALSE, left |-> {}, seen |-> {}, again |-> FALSE]

----------------------------------------------------------------------------
(* Init *)

Init ==
    /\ module \in Providers
    /\ redis = [k \in KeysOf(module, UserIds \X OrgIds) |-> NoRecord]
    /\ proc = EmptyBag
    /\ issued = <<>>
    /\ ops = [begin |-> 0, callback |-> 0, take |-> 0]
    /\ faults = 0
    /\ spent = {}
    /\ posts = [n \in Nonces |-> 0]
    /\ taken = {}
    /\ call = NoCall

----------------------------------------------------------------------------
(* Characters and percent-encoding *)

\* '%', two hexadecimal digits, and a letter that is no hexadecimal digit.
Chars == {"%", "2", "5", "x"}

Strings(n) == UNION {[1..k -> Chars] : k \in 1..n}

\* secrets.token_urlsafe draws from the base64url alphabet (no '%').
CodecNonces == {<<"x">>, <<"2", "x">>}
CodecUserIds == Strings(MaxIdLen)
CodecOrgIds == Strings(1)

IsHex(c) == c \in {"2", "5"}

\* chr(int(pair, 16)): %22 is '"', %25 is '%', %52 is 'R', %55 is 'U'.
HexChar(a, b) ==
    CASE a = "2" /\ b = "2" -> "\""
      [] a = "2" /\ b = "5" -> "%"
      [] a = "5" /\ b = "2" -> "R"
      [] a = "5" /\ b = "5" -> "U"

\* urllib.parse.quote on the characters of a string literal: letters and
\* digits stay, '%' becomes %25.
RECURSIVE Quote(_)
Quote(str) ==
    IF str = <<>> THEN <<>>
    ELSE (IF Head(str) = "%" THEN <<"%", "2", "5">> ELSE <<Head(str)>>) \o Quote(Tail(str))

\* urllib.parse.unquote, and the percent-decoding of a query string: every
\* '%' followed by two hexadecimal digits becomes the character with that
\* code; any other '%' stays.
RECURSIVE Unquote(_)
Unquote(str) ==
    IF str = <<>> THEN <<>>
    ELSE IF Head(str) = "%" /\ Len(str) >= 3 /\ IsHex(str[2]) /\ IsHex(str[3])
    THEN <<HexChar(str[2], str[3])>> \o Unquote(SubSeq(str, 4, Len(str)))
    ELSE <<Head(str)>> \o Unquote(Tail(str))

\* The ids tried that hold a percent escape, and their characters; the
\* other ids hold no '%', and neither quote nor unquote changes them.
PercentIds == {"%25"}
CharsOf(id) == CASE id = "%25" -> <<"%", "2", "5">>

RECURSIVE Text(_)
Text(chars) == IF chars = <<>> THEN "" ELSE Head(chars) \o Text(Tail(chars))

\* An id of state_data as oauth2callback_* gets it back from the state that
\* authorize_* encoded.  notion.py quotes the JSON text, the framework
\* percent-decodes the query string, and the callback applies
\* urllib.parse.unquote once more; base64url text passes the query string as
\* it is.
DecodedId(provider, id) ==
    IF provider = "notion" /\ id \in PercentIds
    THEN Text(Unquote(Unquote(Quote(CharsOf(id)))))
    ELSE id

DecodedData(provider, data) ==
    [data EXCEPT !.user_id = DecodedId(provider, @), !.org_id = DecodedId(provider, @)]

----------------------------------------------------------------------------
(* The handlers, up to their first await and between awaits *)

\* raise HTTPException(status_code=..., detail=...), or return.
Finish(r, status, detail) ==
    [r EXCEPT !.pc = "done", !.wait = {}, !.result = Result(status, detail)]

\* Start the awaitables of one await / asyncio.gather.
Await(r, pc, tasks) ==
    [r EXCEPT !.pc = pc, !.wait = tasks, !.pend = r.pend \cup tasks]

\* The detail strings of the HTTPExceptions each module raises.
Detail ==
    [airtable |->
        [missing_ids |-> "Missing user_id or org_id",
         missing_param |-> "Missing code or state in callback",
         invalid_encoding |-> "Invalid state encoding",
         invalid_data |-> "Invalid state data",
         state_missing |-> "State verification failed",
         state_mismatch |-> "State verification failed",
         request_error |-> "Airtable token request failed",
         exchange_failed |-> "Airtable token exchange failed",
         no_token |-> "",
         no_credentials |-> "No Airtable credentials found",
         save_error |-> "Internal Server Error",
         lookup_error |-> "Internal Server Error",
         persist_error |-> "Internal Server Error",
         read_error |-> "Internal Server Error"],
     hubspot |->
        [missing_ids |-> "Missing user_id or org_id",
         missing_param |-> "Missing 'code' or 'state' in callback",
         invalid_encoding |-> "Invalid state parameter",
         invalid_data |-> "Invalid state payload",
         state_missing |-> "State or PKCE verifier missing or expired",
         state_mismatch |-> "State mismatch",
         request_error |-> "Failed to reach HubSpot token endpoint",
         exchange_failed |-> "Token exchange failed",
         no_token |-> "Token response missing access_token",
         no_credentials |-> "No credentials found",
         save_error |-> "Internal error saving oauth state",
         lookup_error |-> "Internal error reading state",
         persist_error |-> "Failed to persist credentials",
         read_error |-> "Internal error reading credentials"],
     notion |->
        [missing_ids |-> "",
         missing_param |-> "Missing code or state parameter.",
         invalid_encoding |-> "Invalid state parameter.",
         invalid_data |-> "Incomplete state data.",
         state_missing |-> "State not found in Redis.",
         state_mismatch |-> "State mismatch detected.",
         request_error |-> "Internal Server Error",
         exchange_failed |-> "Token exchange failed.",
         no_token |-> "No access token in response.",
         no_credentials |-> "No credentials found.",
         save_error |-> "Internal Server Error",
         lookup_error |-> "Internal Server Error",
         persist_error |-> "Internal Server Error",
         read_error |-> "Internal Server Error"]]

\* airtable.py and hubspot.py generate and store a PKCE code_verifier;
\* notion.py has none.
UsesVerifier(provider) == provider \in {"airtable", "hubspot"}

\* if not user_id or not org_id: raise ... (absent from authorize_notion)
ChecksIds(provider) == provider \in {"airtable", "hubspot"}

MissingIds(user_id, org_id) == user_id = "" \/ org_id = ""

\* The gather of add_key_value_redis calls in authorize_*.
SaveTasks(provider) ==
    IF UsesVerifier(provider)
    THEN {Task("set", "state"), Task("set", "verifier")}
    ELSE {Task("set", "state")}

\* authorize_*(user_id, org_id) up to its await; n is the fresh
\* secrets.token_urlsafe value of state_data["state"] and of code_verifier.
authorize(provider, user_id, org_id, n) ==
    LET r == [Idle EXCEPT !.op = "begin", !.prov = provider,
                          !.user_id = user_id, !.org_id = org_id,
                          !.pc = "start"]
    IN  IF ChecksIds(provider) /\ MissingIds(user_id, org_id)
        THEN Finish(r, 400, Detail[provider].missing_ids)
        ELSE Await([r EXCEPT !.state = n], "save", SaveTasks(provider))

\* encoded_state: the provider's encoding of json.dumps(state_data).
EncodeState(data) == RawState("canonical", "object", data)

\* code_challenge = base64url(sha256(code_verifier)) without padding;
\* verifiers and challenges carry the number of the call that drew them.
Challenge(verifier) == [sha256 |-> verifier]

\* The URL authorize_* returns, as its query parameters.
AuthUrl(r) ==
    LET encoded_state == EncodeState(StateData(r.state, r.user_id, r.org_id))
    IN  CASE r.prov = "airtable" ->
                [client_id |-> "CLIENT_ID", response_type |-> "code", owner |-> "user",
                 redirect_uri |-> "REDIRECT_URI", state |-> encoded_state,
                 code_challenge |-> Challenge(r.state),
                 code_challenge_method |-> "S256", scope |-> "scope"]
          [] r.prov = "hubspot" ->
                [client_id |-> "CLIENT_ID", redirect_uri |-> "REDIRECT_URI",
                 scope |-> "SCOPE", state |-> encoded_state, response_type |-> "code",
                 code_challenge |-> Challenge(r.state),
                 code_challenge_method |-> "S256"]
          [] r.prov = "notion" ->
                [client_id |-> "CLIENT_ID", response_type |-> "code", owner |-> "user",
                 redirect_uri |-> "REDIRECT_URI", state |-> encoded_state]

\* The error parameter is not looked at.
HasError_Ignored(request) == FALSE

\* if request.query_params.get("error"):
HasError(request) == request.error # ""

\* detail=error_description or error (notion: default "OAuth error");
\* the modelled requests carry no error_description.
ErrorDetail(provider, request) ==
    IF provider = "notion" THEN "OAuth error" ELSE request.error

\* if not code or not encoded_state:
MissingParam(request) == request.code = "" \/ request.state.enc = "absent"

\* json.loads(decode(encoded_state)) does not raise.
Decodes(raw) == raw.enc \in {"canonical", "variant"}

\* state_data.get exists (the JSON value is an object).
IsObject(raw) == raw.kind = "object"

\* if not user_id or not org_id or not original_state:
Incomplete(data) == data.user_id = "" \/ data.org_id = "" \/ data.state = 0

\* The gather of get_value_redis calls in oauth2callback_*.
LookupTasks(provider) ==
    IF UsesVerifier(provider)
    THEN {Task("get", "state"), Task("get", "verifier")}
    ELSE {Task("get", "state")}

\* oauth2callback_*(request) up to its first await.
oauth2callback(provider, request, replay, stale) ==
    LET r == [Idle EXCEPT !.op = "callback", !.prov = provider,
                          !.request = request, !.replay = replay,
                          !.stale = stale, !.pc = "start"]
        data == DecodedData(provider, request.state.data)
    IN  IF HasError(request)
        THEN Finish(r, 400, ErrorDetail(provider, request))
        ELSE IF MissingParam(request)
        THEN Finish(r, 400, Detail[provider].missing_param)
        ELSE IF ~Decodes(request.state)
        THEN Finish(r, 400, Detail[provider].invalid_encoding)
        ELSE IF ~IsObject(request.state)
        THEN Finish(r, 500, "Internal Server Error")
        ELSE IF Incomplete(data)
        THEN Finish(r, 400, Detail[provider].invalid_data)
        ELSE Await([r EXCEPT !.user_id = data.user_id, !.org_id = data.org_id,
                             !.state = data.state],
                   "lookup", LookupTasks(provider))

\* not saved_state or not code_verifier
StateMissing(r) ==
    \/ ~r.saved_state.present
    \/ UsesVerifier(r.prov) /\ ~r.code_verifier.present

\* The nonce comparison is left out.
StateMismatch_Never(r) == FALSE

\* original_state != json.loads(saved_state).get("state")
StateMismatch(r) == r.state # r.saved_state.value.state

\* What is awaited together with the token POST.
ExchangeTasks(provider) ==
    CASE provider = "airtable" ->
            {Task("post", "token"), Task("delete", "state"), Task("delete", "verifier")}
      [] provider = "hubspot" -> {Task("post", "token")}
      [] provider = "notion" -> {Task("post", "token"), Task("delete", "state")}

\* The checks between the lookup and the token exchange.
Validate(r) ==
    IF StateMissing(r)
    THEN Finish(r, 400, Detail[r.prov].state_missing)
    ELSE IF StateMismatch(r)
    THEN Finish(r, 400, Detail[r.prov].state_mismatch)
    ELSE Await([r EXCEPT !.posted = TRUE], "exchange", ExchangeTasks(r.prov))

\* "access_token" not in token_data (absent from airtable.py)
ChecksAccessToken(provider) == provider \in {"hubspot", "notion"}

\* From the response check to the await that stores the credentials.
CheckResponse(r) ==
    IF r.resp.kind = "RequestError"
    THEN Finish(r, 502, Detail[r.prov].request_error)
    ELSE IF r.resp.status # 200
    THEN Finish(r, r.resp.status, Detail[r.prov].exchange_failed)
    ELSE IF ChecksAccessToken(r.prov) /\ "access_token" \notin DOMAIN r.resp.body
    THEN Finish(r, 400, Detail[r.prov].no_token)
    ELSE Await(r, "persist", {Task("set", "credentials")})

\* hubspot.py: finally: await asyncio.gather(delete state, delete verifier)
Cleanup(r) ==
    Await(r, "cleanup", {Task("delete", "state"), Task("delete", "verifier")})

\* get_*_credentials(user_id, org_id) up to its first await.
get_credentials(provider, user_id, org_id) ==
    Await([Idle EXCEPT !.op = "take", !.prov = provider,
                       !.user_id = user_id, !.org_id = org_id],
          "read", {Task("get", "credentials")})

\* if not credentials: raise HTTPException(404 / notion: 400)
NotFoundStatus(provider) == IF provider = "notion" THEN 400 ELSE 404

AfterRead(r) ==
    IF ~r.credentials.present
    THEN Finish(r, NotFoundStatus(r.prov), Detail[r.prov].no_credentials)
    ELSE Await(r, "delete", {Task("delete", "credentials")})

\* return json.loads(credentials)
ReturnCredentials(r) ==
    [Finish(r, 200, "credentials") EXCEPT !.out = r.credentials.value]

\* The handler's code after the awaited tasks have all completed.
Continue(r) ==
    CASE r.op = "begin" ->
            [Finish(r, 200, "auth_url") EXCEPT !.out = AuthUrl(r)]
      [] r.op = "callback" /\ r.pc = "lookup" -> Validate(r)
      [] r.op = "callback" /\ r.pc = "exchange" ->
            IF r.prov = "hubspot" THEN Cleanup(r) ELSE CheckResponse(r)
      [] r.op = "callback" /\ r.pc = "cleanup" -> CheckResponse(r)
      [] r.op = "callback" /\ r.pc = "persist" -> Finish(r, 200, "window.close()")
      [] r.op = "take" /\ r.pc = "read" -> AfterRead(r)
      [] r.op = "take" /\ r.pc = "delete" -> ReturnCredentials(r)

Join(r) == IF r.pc # "done" /\ r.wait = {} THEN Continue(r) ELSE r

\* hubspot.py wraps its Redis awaits in try/except; these two only log.
Swallows(r) ==
    /\ r.prov = "hubspot"
    /\ \/ r.op = "callback" /\ r.pc = "cleanup"
       \/ r.op = "take" /\ r.pc = "delete"

\* A Redis command awaited by the handler raised.
Raise(r) ==
    IF Swallows(r)
    THEN Continue([r EXCEPT !.wait = {}])
    ELSE CASE r.pc = "save" -> Finish(r, 500, Detail[r.prov].save_error)
           [] r.pc = "lookup" -> Finish(r, 500, Detail[r.prov].lookup_error)
           [] r.pc = "persist" -> Finish(r, 500, Detail[r.prov].persist_error)
           [] r.pc = "read" -> Finish(r, 500, Detail[r.prov].read_error)
           [] OTHER -> Finish(r, 500, "Internal Server Error")

\* The token POST raised httpx.RequestError.
RaiseRequestError(r) ==
    CASE r.prov = "airtable" -> Finish(r, 502, Detail[r.prov].request_error)
      [] r.prov = "hubspot" -> Join(r)
      [] r.prov = "notion" -> Finish(r, 500, Detail[r.prov].request_error)

----------------------------------------------------------------------------
(* Redis commands (redis_client.py) *)

KeyOf(r, kind) == Key(r.prov, kind, r.org_id, r.user_id)

\* The value a handler writes under each kind of key.
ValueOf(r, kind) ==
    CASE kind = "state" -> StateData(r.state, r.user_id, r.org_id)
      [] kind = "verifier" -> [code_verifier |-> r.state]
      [] kind = "credentials" -> r.resp.body

\* A SET that keeps the value the key already has.
redis_set_KeepsOld(store, key, value) ==
    IF store[key].present THEN store ELSE [store EXCEPT ![key] = Record(value, 0)]

\* redis_client.set(key, value): SET discards the time to live of the key.
redis_set(store, key, value) == [store EXCEPT ![key] = Record(value, 0)]

\* redis_client.expire(key, expire)
redis_expire(store, key, expire) ==
    IF store[key].present THEN [store EXCEPT ![key].ttl = expire] ELSE store

\* redis_client.get(key)
get_value_redis(store, key) == store[key]

\* redis_client.delete(key)
delete_key_redis(store, key) == [store EXCEPT ![key] = NoRecord]

\* if expire: await redis_client.expire(key, expire)
ExpireAfterSet(expire) == expire # 0

----------------------------------------------------------------------------
(* Bookkeeping of a step *)

\* proc is the bag of the invocations on the event loop: the handlers that
\* are running, the tasks that returned handlers left behind, and the
\* invocation whose response was sent by the last step.
Procs == BagToSet(proc)

Busy(r) == r.pc # "done" \/ r.pend # {}

InFlight == BagCardinality(proc) - Cardinality({r \in Procs : ~Busy(r)})

Count(r) == IF r.pc = "done" THEN ops ELSE [ops EXCEPT ![r.op] = @ + 1]

CanStart ==
    /\ ops.begin + ops.callback + ops.take < MaxOps
    /\ InFlight < NProcs

\* The records of the validated flow still in the store.
Leftover(r, store) ==
    {kind \in Kinds :
        LET read == CASE kind = "state" -> r.saved_state
                      [] kind = "verifier" -> r.code_verifier
                      [] kind = "credentials" -> r.credentials
            now == store[KeyOf(r, kind)]
        IN  read.present /\ now.present /\ now.value = read.value}

\* Once the response of an invocation has been sent, only the tasks it left
\* running on the event loop remain of it.
Forget(r) ==
    IF r.pc # "done" THEN r
    ELSE IF r.pend = {} THEN Idle
    ELSE [Idle EXCEPT !.prov = r.prov, !.user_id = r.user_id, !.org_id = r.org_id,
                      !.state = r.state, !.pend = r.pend]

Drop(bag) == [r \in DOMAIN bag \ {Idle} |-> bag[r]]

Forgotten(bag) == Drop(BagOfAll(Forget, bag))

\* The step takes invocation old (Idle for a new invocation) to r.
\* The state of an authorization URL is known outside once authorize_* has
\* returned the URL.
Published(iss, r) ==
    IF r.op = "begin" /\ r.pc = "done" /\ r.result.status = 200
    THEN [iss EXCEPT ![r.state].url = TRUE]
    ELSE iss

Commit(old, r, store, iss) ==
    LET returns == r.pc = "done" /\ old.pc # "done" /\ r.posted
        takes == r.pc = "done" /\ old.pc # "done" /\ r.op = "take" /\ r.result.status = 200
        r2 == IF returns THEN [r EXCEPT !.left = Leftover(old, store)]
              ELSE IF takes
              THEN [r EXCEPT !.left = Leftover(old, store), !.again = r.out \in taken]
              ELSE IF r.posted /\ ~old.posted
              THEN [r EXCEPT !.token = posts[r.state] + 1]
              ELSE IF old.pc = "done" /\ old.pend # {} THEN Forget(r)
              ELSE r
    IN  /\ proc' = Drop([x \in {r2} |-> 1] (+) Forgotten(proc (-) [x \in {old} |-> 1]))
        /\ redis' = store
        /\ issued' = Published(iss, r)
        /\ spent' = IF returns THEN spent \cup {<<r.prov, r.request>>} ELSE spent
        /\ posts' = IF r.posted /\ ~old.posted
                    THEN [posts EXCEPT ![r.state] = @ + 1]
                    ELSE posts
        /\ taken' = IF takes THEN taken \cup {r.out} ELSE taken

Done(r, t) ==
    [r EXCEPT !.pend = @ \ {t}, !.wait = @ \ {t}, !.nstore = @ + 1]

----------------------------------------------------------------------------
(* Inputs *)

\* The nonces of the authorize_* calls that have returned their URL.
Returned_Urls == {m \in 1..Len(issued) : issued[m].url}

\* The flows of (provider, user, org) whose authorize_* call has returned.
Prior(provider, user_id, org_id) ==
    {m \in Returned_Urls :
        /\ issued[m].prov = provider
        /\ issued[m].data.user_id = user_id
        /\ issued[m].data.org_id = org_id
        /\ ~Incomplete(issued[m].data)}

\* The request is a callback with the state of a flow A, and a later
\* authorize_* call B for the same (provider, user, org), started after A's
\* call had returned, has returned too.
Superseded(provider, request) ==
    /\ ~HasError(request)
    /\ ~MissingParam(request)
    /\ LET a == request.state.data.state
       IN  /\ a \in 1..Len(issued)
           /\ issued[a].prov = provider
           /\ request.state = EncodeState(issued[a].data)
           /\ \E b \in (a + 1)..Len(issued) : issued[b].url /\ a \in issued[b].prior

IssuedData(provider) ==
    {issued[n].data : n \in {m \in 1..Len(issued) : issued[m].prov = provider /\ issued[m].url}}

ForgedData == {StateData(ForgedNonce, "u1", "o1"), StateData(ForgedNonce, "", "o1")}

CallbackStates(provider) ==
    {EncodeState(d) : d \in IssuedData(provider) \cup ForgedData}
    \cup {GarbageState, ArrayState, NoState}

CallbackRequests(provider) ==
    {Request("", "c1", s) : s \in CallbackStates(provider)}
    \cup {Request("access_denied", "c1", EncodeState(d)) :
            d \in IssuedData(provider) \cup {StateData(ForgedNonce, "u1", "o1")}}
    \cup {Request("", "", EncodeState(d)) : d \in IssuedData(provider)}

----------------------------------------------------------------------------
(* Actions *)

\* A request that is rejected before its first await touches nothing the
\* other invocations see; such a request is taken when no other is running.
StartAuthorize(provider, user_id, org_id) ==
    /\ CanStart
    /\ LET n == Len(issued) + 1
           r == authorize(provider, user_id, org_id, n)
           iss == IF r.pc = "done"
                  THEN issued
                  ELSE Append(issued, [prov |-> provider, url |-> FALSE,
                                       prior |-> Prior(provider, user_id, org_id),
                                       data |-> StateData(n, user_id, org_id)])
       IN  /\ r.pc # "done" => ops[r.op] < MaxSame
           /\ r.pc = "done" => InFlight = 0
           /\ Commit(Idle, r, redis, iss)
           /\ ops' = Count(r)
    /\ UNCHANGED <<module, call, faults>>

StartCallback(provider, request) ==
    /\ CanStart
    /\ LET r == oauth2callback(provider, request, <<provider, request>> \in spent,
                                Superseded(provider, request))
       IN  /\ r.pc # "done" => ops[r.op] < MaxSame
           /\ r.pc = "done" => InFlight = 0
           /\ Commit(Idle, r, redis, issued)
           /\ ops' = Count(r)
    /\ UNCHANGED <<module, call, faults>>

StartCredentials(provider, user_id, org_id) ==
    /\ CanStart
    /\ ops.take < MaxSame
    /\ Commit(Idle, [get_credentials(provider, user_id, org_id) EXCEPT !.seen = taken],
              redis, issued)
    /\ ops' = [ops EXCEPT !.take = @ + 1]
    /\ UNCHANGED <<module, call, faults>>

\* add_key_value_redis, first await
RedisSet(r, kind) ==
    LET t == Task("set", kind)
        e == Task("expire", kind)
        next == IF ExpireAfterSet(TEMP_TTL_SECONDS) THEN {e} ELSE {}
        r2 == [r EXCEPT !.pend = (@ \ {t}) \cup next,
                        !.wait = IF t \in @ THEN (@ \ {t}) \cup next ELSE @,
                        !.nstore = @ + 1]
    IN  /\ t \in r.pend
        /\ Commit(r, Join(r2), redis_set(redis, KeyOf(r, kind), ValueOf(r, kind)), issued)
        /\ UNCHANGED <<module, call, ops, faults>>

\* add_key_value_redis, second await
RedisExpire(r, kind) ==
    LET t == Task("expire", kind)
    IN  /\ t \in r.pend
        /\ Commit(r, Join(Done(r, t)), redis_expire(redis, KeyOf(r, kind), TEMP_TTL_SECONDS), issued)
        /\ UNCHANGED <<module, call, ops, faults>>

RedisGet(r, kind) ==
    LET t == Task("get", kind)
        v == get_value_redis(redis, KeyOf(r, kind))
        r2 == CASE kind = "state" -> [r EXCEPT !.saved_state = v]
                [] kind = "verifier" -> [r EXCEPT !.code_verifier = v]
                [] kind = "credentials" -> [r EXCEPT !.credentials = v]
    IN  /\ t \in r.pend
        /\ Commit(r, Join(Done(r2, t)), redis, issued)
        /\ UNCHANGED <<module, call, ops, faults>>

RedisDelete(r, kind) ==
    LET t == Task("delete", kind)
    IN  /\ t \in r.pend
        /\ Commit(r, Join(Done(r, t)), delete_key_redis(redis, KeyOf(r, kind)), issued)
        /\ UNCHANGED <<module, call, ops, faults>>

\* A Redis command raises (connection error, timeout) without effect.
RedisFail(r, t) ==
    LET r2 == Done(r, t)
    IN  /\ t \in r.pend
        /\ t[1] # "post"
        /\ faults < MaxFaults
        /\ Commit(r, IF t \in r.wait THEN Raise(r2) ELSE r2, redis, issued)
        /\ faults' = faults + 1
        /\ UNCHANGED <<module, call, ops>>

\* client.post(token endpoint) returns or raises httpx.RequestError.
PostReturn(r, outcome) ==
    LET t == Task("post", "token")
        r1 == [r EXCEPT !.pend = @ \ {t}, !.wait = @ \ {t}]
        r2 == [r1 EXCEPT !.resp = outcome]
    IN  /\ t \in r.pend
        /\ Commit(r, IF t \notin r.wait THEN r1
                     ELSE IF outcome.kind = "RequestError" THEN RaiseRequestError(r2)
                     ELSE Join(r2),
                  redis, issued)
        /\ UNCHANGED <<module, call, ops, faults>>

\* Redis removes a key whose time to live has run out.
Expire(key) ==
    /\ redis[key].present
    /\ redis[key].ttl > 0
    /\ faults < MaxFaults
    /\ redis' = [redis EXCEPT ![key] = NoRecord]
    /\ proc' = Forgotten(proc)
    /\ faults' = faults + 1
    /\ UNCHANGED <<module, call, issued, ops, spent, posts, taken>>

Next ==
    \/ \E a \in BeginInputs : StartAuthorize(module, a[1], a[2])
    \/ \E request \in CallbackRequests(module) : StartCallback(module, request)
    \/ \E a \in TakeInputs : StartCredentials(module, a[1], a[2])
    \/ \E r \in Procs, kind \in Kinds : RedisSet(r, kind)
    \/ \E r \in Procs, kind \in Kinds : RedisExpire(r, kind)
    \/ \E r \in Procs, kind \in Kinds : RedisGet(r, kind)
    \/ \E r \in Procs, kind \in Kinds : RedisDelete(r, kind)
    \/ \E r \in Procs : \E t \in r.pend : RedisFail(r, t)
    \/ \E r \in Procs : \E outcome \in PostOutcomes(r.state, r.token) : PostReturn(r, outcome)
    \/ \E key \in DOMAIN redis : Expire(key)

Spec == Init /\ [][Next]_vars

----------------------------------------------------------------------------
(* The handlers called for ids that contain the ':' of the key format *)

\* (user_id, org_id) pairs of two different identities.
ColonInputs == {<<"c", "a:b">>, <<"b:c", "a">>}

InitKeys ==
    /\ module \in Providers
    /\ redis = [k \in KeysOf(module, ColonInputs) |-> NoRecord]
    /\ proc = EmptyBag
    /\ issued = <<>>
    /\ ops = [begin |-> 0, callback |-> 0, take |-> 0]
    /\ faults = 0
    /\ spent = {}
    /\ posts = [n \in Nonces |-> 0]
    /\ taken = {}
    /\ call = NoCall

NextKeys ==
    \/ \E a \in ColonInputs : StartAuthorize(module, a[1], a[2])
    \/ \E d \in IssuedData(module) :
          StartCallback(module, Request("", "c1", EncodeState(d)))
    \/ \E a \in ColonInputs : StartCredentials(module, a[1], a[2])
    \/ \E r \in Procs, kind \in Kinds : RedisSet(r, kind)
    \/ \E r \in Procs, kind \in Kinds : RedisExpire(r, kind)
    \/ \E r \in Procs, kind \in Kinds : RedisGet(r, kind)
    \/ \E r \in Procs, kind \in Kinds : RedisDelete(r, kind)
    \/ \E r \in Procs : \E outcome \in PostOutcomes(r.state, r.token) : PostReturn(r, outcome)

SpecKeys == InitKeys /\ [][NextKeys]_vars

----------------------------------------------------------------------------
(* The undisturbed path: one authorize_* call, the callback with the state   *)
(* of its URL, the token endpoint answering 200 with an access token, then   *)
(* one get_*_credentials call; no Redis error and no expiry.                 *)

\* (user_id, org_id) pairs: plain ids, and ids holding a percent escape.
PathInputs == {<<"u1", "o1">>, <<"%25", "o1">>, <<"u1", "%25">>}

\* The pairs a callback can name for them.
PathDecoded(provider) ==
    {<<DecodedId(provider, a[1]), DecodedId(provider, a[2])>> : a \in PathInputs}

InitPath ==
    /\ module \in Providers
    /\ redis = [k \in KeysOf(module, PathInputs \cup PathDecoded(module)) |-> NoRecord]
    /\ proc = EmptyBag
    /\ issued = <<>>
    /\ ops = [begin |-> 0, callback |-> 0, take |-> 0]
    /\ faults = 0
    /\ spent = {}
    /\ posts = [n \in Nonces |-> 0]
    /\ taken = {}
    /\ call = NoCall

NextPath ==
    \/ /\ issued = <<>>
       /\ \E a \in PathInputs : StartAuthorize(module, a[1], a[2])
    \/ /\ InFlight = 0
       /\ ops.callback = 0
       /\ \E d \in IssuedData(module) :
             StartCallback(module, Request("", "c1", EncodeState(d)))
    \/ /\ InFlight = 0
       /\ ops.callback = 1
       /\ ops.take = 0
       /\ StartCredentials(module, issued[1].data.user_id, issued[1].data.org_id)
    \/ \E r \in Procs, kind \in Kinds : RedisSet(r, kind)
    \/ \E r \in Procs, kind \in Kinds : RedisExpire(r, kind)
    \/ \E r \in Procs, kind \in Kinds : RedisGet(r, kind)
    \/ \E r \in Procs, kind \in Kinds : RedisDelete(r, kind)
    \/ \E r \in Procs : PostReturn(r, Response(200, TokenBody(r.state, r.token)))

SpecPath == InitPath /\ [][NextPath]_vars

----------------------------------------------------------------------------
(* Flows that are begun, perhaps exchanged, and then left alone *)

\* Redis removes a key when its time to live has run out.
TtlExpire(key) ==
    /\ redis[key].present
    /\ redis[key].ttl > 0
    /\ redis' = [redis EXCEPT ![key] = NoRecord]
    /\ proc' = Forgotten(proc)
    /\ UNCHANGED <<module, call, issued, ops, faults, spent, posts, taken>>

\* What the event loop, the token endpoint and Redis do by themselves.
LiveSteps ==
    \/ \E r \in Procs, kind \in Kinds : RedisSet(r, kind)
    \/ \E r \in Procs, kind \in Kinds : RedisExpire(r, kind)
    \/ \E r \in Procs, kind \in Kinds : RedisGet(r, kind)
    \/ \E r \in Procs, kind \in Kinds : RedisDelete(r, kind)
    \/ \E r \in Procs : \E outcome \in PostOutcomes(r.state, r.token) : PostReturn(r, outcome)
    \/ \E key \in DOMAIN redis : TtlExpire(key)

\* Handlers are called one after the other, and nobody takes the credentials.
NextLive ==
    \/ InFlight = 0 /\ StartAuthorize(module, "u1", "o1")
    \/ /\ InFlight = 0
       /\ \E d \in IssuedData(module) :
             StartCallback(module, Request("", "c1", EncodeState(d)))
    \/ \E r \in Procs : \E t \in r.pend : RedisFail(r, t)
    \/ LiveSteps

\* A task on the event loop is run, the token endpoint answers or times out,
\* and Redis expires the keys that have a time to live.
SpecLive == Init /\ [][NextLive]_vars /\ WF_vars(LiveSteps)

----------------------------------------------------------------------------
(* The state parameter: encoded by authorize_*, carried by the query string, *)
(* decoded by oauth2callback_*.  Strings are sequences of characters.        *)

\* The variables of the OAuth flow, which the calls below leave alone.
flowVars == <<redis, proc, issued, ops, faults, spent, posts, taken>>

NoFlow ==
    /\ redis = [k \in KeysOf(module, {}) |-> NoRecord]
    /\ proc = EmptyBag
    /\ issued = <<>>
    /\ ops = [begin |-> 0, callback |-> 0, take |-> 0]
    /\ faults = 0
    /\ spent = {}
    /\ posts = [n \in Nonces |-> 0]
    /\ taken = {}

\* json.dumps(state_data): the text {"state": "...", "user_id": "...",
\* "org_id": "..."}, given by its three string literals.
JsonFields == {"state", "user_id", "org_id"}
JsonDumps(data) == [f \in JsonFields |-> data[f]]

\* len(json.dumps(state_data)): 42 characters besides the literals.
JsonLen(text) == 42 + Len(text.state) + Len(text.user_id) + Len(text.org_id)

\* json.loads raises when a literal holds a bare '"'.
JsonLoads(text) ==
    IF \E f \in JsonFields : \E i \in 1..Len(text[f]) : text[f][i] = "\""
    THEN [ok |-> FALSE]
    ELSE [ok |-> TRUE, data |-> [f \in JsonFields |-> text[f]]]

\* base64.urlsafe_b64encode of n bytes: ceil(4n/3) digits and '=' up to a
\* multiple of four.
B64Digits(n) == (4 * n + 2) \div 3
B64Pad(digits) == (4 - (digits % 4)) % 4
B64Encode(text) ==
    [form |-> "base64", text |-> text,
     digits |-> B64Digits(JsonLen(text)), pad |-> B64Pad(B64Digits(JsonLen(text)))]

\* base64.urlsafe_b64decode raises binascii.Error on incorrect padding.
B64Decode(value) ==
    IF (value.digits + value.pad) % 4 = 0 THEN [ok |-> TRUE, text |-> value.text]
    ELSE [ok |-> FALSE]

\* encoded_state of authorize_airtable / authorize_hubspot / authorize_notion.
EncodeText(provider, data) ==
    CASE provider = "airtable" -> B64Encode(JsonDumps(data))
      [] provider = "hubspot" -> [B64Encode(JsonDumps(data)) EXCEPT !.pad = 0]
      [] provider = "notion" ->
            [form |-> "quoted", text |-> [f \in JsonFields |-> Quote(JsonDumps(data)[f])]]

\* request.query_params.get("state"): the query string percent-decoded.
\* base64url digits and '=' stand for themselves.
QueryParam(value) ==
    IF value.form = "quoted"
    THEN [value EXCEPT !.text = [f \in JsonFields |-> Unquote(value.text[f])]]
    ELSE value

\* The decoding at the head of oauth2callback_*.
DecodeText(provider, value) ==
    CASE provider = "airtable" ->
            IF B64Decode(value).ok THEN JsonLoads(B64Decode(value).text) ELSE [ok |-> FALSE]
      [] provider = "hubspot" ->
            LET padded == [value EXCEPT !.pad = B64Pad(value.digits + value.pad)]
            IN  IF B64Decode(padded).ok THEN JsonLoads(B64Decode(padded).text)
                ELSE [ok |-> FALSE]
      [] provider = "notion" ->
            JsonLoads([f \in JsonFields |-> Unquote(value.text[f])])

InitCodec ==
    /\ module \in Providers
    /\ NoFlow
    /\ \E n \in CodecNonces, u \in CodecUserIds, o \in CodecOrgIds :
          call = [op |-> "codec", pc |-> "begin",
                  data |-> [state |-> n, user_id |-> u, org_id |-> o],
                  value |-> Null, decoded |-> Null]

\* authorize_* puts the encoded state into the authorization URL.
CodecEncode ==
    /\ call.pc = "begin"
    /\ call' = [call EXCEPT !.pc = "url", !.value = EncodeText(module, call.data)]
    /\ UNCHANGED <<module, flowVars>>

\* The provider redirects to the callback with the state it was given.
CodecDeliver ==
    /\ call.pc = "url"
    /\ call' = [call EXCEPT !.pc = "request", !.value = QueryParam(call.value)]
    /\ UNCHANGED <<module, flowVars>>

\* oauth2callback_* decodes the state parameter.
CodecDecode ==
    /\ call.pc = "request"
    /\ call' = [call EXCEPT !.pc = "decoded", !.decoded = DecodeText(module, call.value)]
    /\ UNCHANGED <<module, flowVars>>

NextCodec == CodecEncode \/ CodecDeliver \/ CodecDecode

SpecCodec == InitCodec /\ [][NextCodec]_vars

----------------------------------------------------------------------------
(* get_items_airtable, get_items_hubspot, get_items_notion: the listing of   *)
(* the provider's items with the stored credentials.                         *)

\* Status codes the provider's API answers with.
Statuses == {200, 403, 500}

\* No next-page marker (None, or a response without the key).
NoMarker == [none |-> TRUE]
Marker(page) == [page |-> page]

\* The provider's listing: page i holds no entries or the two entries
\* 2i-1 and 2i, and every page but the last carries the marker of the next.
PageEntries(pages, i) == IF pages[i] THEN <<2 * i - 1, 2 * i>> ELSE <<>>
PageMarker(pages, i) == IF i < Len(pages) THEN Marker(i + 1) ELSE NoMarker
PageOf(marker) == IF marker = NoMarker THEN 1 ELSE marker.page
Listings == UNION {[1..n -> BOOLEAN] : n \in 1..MaxPages}

\* The entries of the listing that are no JSON object (at most one), on
\* which create_integration_item_metadata_object raises AttributeError.
Malformations == {{}} \cup {{e} : e \in 1..(2 * MaxPages)}

\* The listing of the tables of a base: its first page holds one table with
\* the native id of the base itself, a further page a table with another id;
\* every page but the last carries a marker.
TableEntries(base, j) == IF j = 1 THEN <<base>> ELSE <<base + 2 * MaxPages * (j - 1)>>

\* The name of the entry with the given native id.
NameOf(entry) == <<"name", entry>>

\* Without the type suffix.
ItemId_NoSuffix(native, type) == <<native>>

\* airtable.py: id=f"{response_json.get('id', '')}_{item_type}"
ItemId(native, type) == <<native, type>>

\* create_integration_item_metadata_object of each module, for an entry that
\* is a JSON object.
IntegrationItem(provider, entry) ==
    CASE provider = "airtable" ->
            [id |-> ItemId(entry, "Base"), type |-> "Base", name |-> NameOf(entry),
             parent_id |-> Null, parent_path_or_name |-> Null]
      [] provider = "hubspot" ->
            [id |-> <<entry>>, type |-> "Contact", name |-> NameOf(entry),
             parent_id |-> Null, parent_path_or_name |-> Null]
      [] provider = "notion" ->
            [id |-> <<entry>>, type |-> "object", name |-> NameOf(entry),
             parent_id |-> Null, parent_path_or_name |-> Null]

\* create_integration_item_metadata_object(table, "Table", base.get("id"),
\* base.get("name")); parent_id = f"{parent_id}_Base".
TableItem(base, table) ==
    [id |-> ItemId(table, "Table"), type |-> "Table", name |-> NameOf(table),
     parent_id |-> ItemId(base, "Base"), parent_path_or_name |-> NameOf(base)]

RECURSIVE TableItems(_, _)
TableItems(base, tables) ==
    IF tables = <<>> THEN <<>>
    ELSE <<TableItem(base, Head(tables))>> \o TableItems(base, Tail(tables))

\* hubspot.py, notion.py: every entry is normalised inside try/except, and an
\* entry on which the normalisation raises is logged and left out.
RECURSIVE Items(_, _, _)
Items(provider, entries, bad) ==
    IF entries = <<>> THEN <<>>
    ELSE (IF Head(entries) \in bad THEN <<>>
          ELSE <<IntegrationItem(provider, Head(entries))>>)
         \o Items(provider, Tail(entries), bad)

ItemList(items) == [kind |-> "items", items |-> items]

\* HTTPException(status_code, detail), with the upstream status the detail
\* names, and an exception that is no HTTPException.
FetchError(status_code, upstream) ==
    [kind |-> "HTTPException", status_code |-> status_code, upstream |-> upstream]
Uncaught(name) == [kind |-> name]

InitFetch ==
    /\ module \in Providers
    /\ NoFlow
    /\ \E pages \in Listings, token \in BOOLEAN, bad \in Malformations,
          tpages \in 1..MaxTablePages :
          call = [op |-> "fetch", pc |-> "begin", pages |-> pages, token |-> token,
                  bad |-> bad, tpages |-> tpages,
                  marker |-> NoMarker, sent |-> <<>>, statuses |-> <<>>,
                  bases |-> <<>>, items |-> <<>>, tables |-> <<>>, result |-> Null]

\* The head of get_items_*: the credentials must hold an access token.
FetchBegin ==
    /\ call.pc = "begin"
    /\ call' = IF call.token THEN [call EXCEPT !.pc = "list"]
               ELSE [call EXCEPT !.pc = "done",
                                 !.result = IF module = "notion" THEN Uncaught("ValueError")
                                            ELSE FetchError(400, Null)]
    /\ UNCHANGED <<module, flowVars>>

\* What the module does with a listing response that is not 200.
ListingFailed(provider, status) ==
    CASE provider = "airtable" -> FetchError(status, status)
      [] provider = "hubspot" ->
            IF status = 403 THEN FetchError(403, Null) ELSE FetchError(502, status)
      [] provider = "notion" -> ItemList(<<>>)

\* One listing request and what the module does with its response:
\* fetch_items (airtable), one turn of the while loop (hubspot), the single
\* POST /v1/search (notion).
FetchPage(status) ==
    /\ call.pc = "list"
    /\ LET i == PageOf(call.marker)
           got == call.items \o Items(module, PageEntries(call.pages, i), call.bad)
           bases == call.bases \o PageEntries(call.pages, i)
           next == PageMarker(call.pages, i)
           asked == [call EXCEPT !.sent = Append(@, call.marker),
                                 !.statuses = Append(@, status)]
       IN  call' =
             IF status # 200
             THEN [asked EXCEPT !.pc = "done", !.result = ListingFailed(module, status)]
             ELSE CASE module = "airtable" ->
                        IF next # NoMarker
                        THEN [asked EXCEPT !.bases = bases, !.marker = next]
                        ELSE IF bases = <<>>
                        THEN [asked EXCEPT !.pc = "done", !.result = ItemList(<<>>)]
                        ELSE [asked EXCEPT !.bases = bases, !.pc = "tables"]
                    [] module = "hubspot" ->
                        IF next # NoMarker
                        THEN [asked EXCEPT !.items = got, !.marker = next]
                        ELSE [asked EXCEPT !.items = got, !.pc = "done",
                                           !.result = ItemList(got)]
                    [] module = "notion" ->
                        [asked EXCEPT !.items = got, !.pc = "done", !.result = ItemList(got)]
    /\ UNCHANGED <<module, flowVars>>

\* get_items_airtable, one turn of the loop over the bases: the Base item
\* (created outside any try), the one request for the base's tables, the
\* Table items of its response; a marker in that response is not looked at.
FetchTables(status) ==
    /\ call.pc = "tables"
    /\ LET base == Head(call.bases)
           got == call.items \o <<IntegrationItem("airtable", base)>>
           all == got \o TableItems(base, TableEntries(base, 1))
           asked == [call EXCEPT !.tables = Append(@, status), !.bases = Tail(@)]
       IN  call' =
             IF base \in call.bad
             THEN [call EXCEPT !.pc = "done", !.result = Uncaught("AttributeError")]
             ELSE IF status # 200
             THEN [asked EXCEPT !.items = got, !.pc = "done",
                                !.result = FetchError(status, status)]
             ELSE IF Tail(call.bases) = <<>>
             THEN [asked EXCEPT !.items = all, !.pc = "done", !.result = ItemList(all)]
             ELSE [asked EXCEPT !.items = all]
    /\ UNCHANGED <<module, flowVars>>

NextFetch ==
    \/ FetchBegin
    \/ \E status \in Statuses : FetchPage(status)
    \/ \E status \in Statuses : FetchTables(status)

SpecFetch == InitFetch /\ [][NextFetch]_vars

----------------------------------------------------------------------------
(* notion.py: create_integration_item_metadata_object, on JSON values given  *)
(* as trees: a string, None, a list of values, or a dict as the sequence of  *)
(* its <<key, value>> pairs in their order.                                  *)

Str(text) == [t |-> "str", v |-> text]
None == [t |-> "None", v |-> ""]
List(values) == [t |-> "list", v |-> values]
Dict(pairs) == [t |-> "dict", v |-> pairs]

\* key in data
Has(data, key) == \E i \in 1..Len(data.v) : data.v[i][1] = key

\* data.get(key, default)
Get(data, key, default) ==
    IF Has(data, key)
    THEN data.v[CHOOSE i \in 1..Len(data.v) : data.v[i][1] = key][2]
    ELSE default

\* data.values()
Values(data) == [i \in 1..Len(data.v) |-> data.v[i][2]]

\* bool(value)
Truthy(value) ==
    CASE value.t = "None" -> FALSE
      [] value.t = "str" -> value.v # ""
      [] OTHER -> value.v # <<>>

\* _recursive_dict_search(data, target_key): the value under target_key in
\* the dict itself, or else the first result that is not None among its
\* values, or the items of a list, taken in order.
RECURSIVE recursive_dict_search(_, _), SearchEach(_, _)
recursive_dict_search(data, target_key) ==
    IF data.t = "dict"
    THEN IF Has(data, target_key) THEN Get(data, target_key, None)
         ELSE SearchEach(Values(data), target_key)
    ELSE IF data.t = "list" THEN SearchEach(data.v, target_key)
    ELSE None

SearchEach(values, target_key) ==
    IF values = <<>> THEN None
    ELSE LET result == recursive_dict_search(Head(values), target_key)
         IN  IF result.t # "None" THEN result ELSE SearchEach(Tail(values), target_key)

\* The name create_integration_item_metadata_object gives the item.
ItemName(response_json) ==
    LET properties == Get(response_json, "properties", Dict(<<>>))
        found == recursive_dict_search(properties, "content")
        again == recursive_dict_search(response_json, "content")
        name == IF found.t # "None" THEN found
                ELSE IF Truthy(again) THEN again
                ELSE Get(response_json, "object", Str("Unknown"))
    IN  IF name.t = "list" /\ name.v # <<>>
        THEN IF name.v[1].t = "dict" THEN Get(name.v[1], "plain_text", Str("Untitled"))
             ELSE IF name.v[1].t = "str" THEN name.v[1]
             ELSE Str("None")
        ELSE IF name.t # "str" THEN Str("Untitled")
        ELSE name

\* A title element with plain_text t: the keys besides plain_text are those
\* of a text element (content equal to the plain text, or another), of a
\* mention, or none.
TitleElement(t, text, mention) ==
    Dict((IF text = "none" THEN <<>>
          ELSE <<<<"text", Dict(<<<<"content", Str(IF text = "same" THEN t ELSE "other")>>,
                                  <<"link", None>>>>)>>>>)
         \o (IF mention
             THEN <<<<"mention", Dict(<<<<"user", Dict(<<<<"id", Str("user-1")>>>>)>>>>)>>>>
             ELSE <<>>)
         \o <<<<"plain_text", Str(t)>>, <<"href", None>>>>)

\* The Name property of a page.
NameProperty(element) ==
    <<<<"Name", Dict(<<<<"id", Str("title")>>, <<"type", Str("title")>>,
                       <<"title", List(<<element>>)>>>>)>>>>

\* Another property of the page: none, a rich text, or a select.
OtherProperty(kind) ==
    CASE kind = "none" -> <<>>
      [] kind = "rich_text" ->
            <<<<"Description",
                Dict(<<<<"type", Str("rich_text")>>,
                       <<"rich_text",
                         List(<<Dict(<<<<"text", Dict(<<<<"content", Str("d")>>>>)>>,
                                       <<"plain_text", Str("d")>>>>)>>)>>>>)>>>>
      [] kind = "select" ->
            <<<<"Status", Dict(<<<<"type", Str("select")>>,
                                 <<"select", Dict(<<<<"name", Str("Done")>>>>)>>>>)>>>>

\* A page as POST /v1/search returns it.
Page(properties) ==
    Dict(<<<<"object", Str("page")>>, <<"id", Str("p1")>>,
           <<"properties", Dict(properties)>>>>)

Titles == {"Project X", "Roadmap", "Y"}

InitName ==
    /\ module = "notion"
    /\ NoFlow
    /\ \E t \in Titles, text \in {"none", "same", "other"}, mention \in BOOLEAN,
          kind \in {"none", "rich_text", "select"}, first \in BOOLEAN :
          LET name == NameProperty(TitleElement(t, text, mention))
              other == OtherProperty(kind)
          IN  call = [op |-> "normalize", pc |-> "raw", title |-> t,
                      text |-> text, other |-> IF first THEN kind ELSE "none",
                      raw |-> Page(IF first THEN other \o name ELSE name \o other),
                      name |-> None]

\* create_integration_item_metadata_object(result)
Normalize ==
    /\ call.pc = "raw"
    /\ call' = [call EXCEPT !.pc = "item", !.name = ItemName(call.raw)]
    /\ UNCHANGED <<module, flowVars>>

NextName == Normalize

SpecName == InitName /\ [][NextName]_vars

----------------------------------------------------------------------------
(* The error classes of the specification, by what the modules raise *)

Callbacks == {r \in Procs : r.op = "callback"}
Begins == {r \in Procs : r.op = "begin"}
Takes == {r \in Procs : r.op = "take"}

Returned(r) == r.pc = "done"

IsProviderDenied(r) ==
    r.result.status = 400 /\ r.result.detail \in {"access_denied", "OAuth error"}

IsInvalidRequest(r) == r.result = Result(400, "Missing user_id or org_id")

IsStateExpiredOrUnknown(r) ==
    /\ r.result.status = 400
    /\ r.result.detail \in {"State verification failed",
                            "State or PKCE verifier missing or expired",
                            "State not found in Redis."}

IsStateMismatch(r) ==
    /\ r.result.status = 400
    /\ r.result.detail \in {"State verification failed", "State mismatch",
                            "State mismatch detected."}

IsMalformedState(r) ==
    /\ r.result.status = 400
    /\ r.result.detail \in {"Invalid state encoding", "Invalid state data",
                            "Invalid state parameter", "Invalid state payload",
                            "Invalid state parameter.", "Incomplete state data."}

IsNotFound(r) ==
    /\ r.result.status \in {400, 404}
    /\ r.result.detail \in {"No Airtable credentials found", "No credentials found",
                            "No credentials found."}

IsInvalidTokenResponse(r) ==
    /\ r.result.status = 400
    /\ r.result.detail \in {"Token response missing access_token",
                            "No access token in response."}

IsUpstreamUnavailable(r) ==
    /\ r.result.status = 502
    /\ r.result.detail \in {"Airtable token request failed",
                            "Failed to reach HubSpot token endpoint"}

\* The states some authorize_* call has encoded so far.
Produced == {EncodeState(issued[n].data) : n \in 1..Len(issued)}

\* A callback that gets as far as its state parameter, with a state no
\* authorize_* call has produced.
Forged(r) ==
    /\ r.op = "callback"
    /\ r.request.error = ""
    /\ r.request.code # ""
    /\ r.request.state # NoState
    /\ r.request.state \notin Produced

----------------------------------------------------------------------------
(* Claims *)

\* C8: a callback that carries an error parameter fails with ProviderDenied
\* (400 with the error as detail) and performs no Redis command and no token
\* POST: it never has a task and has returned in the step that started it.
C8_ProviderDeniedBeforeStore ==
    \A r \in Callbacks :
        r.request.error # "" =>
            /\ Returned(r)
            /\ IsProviderDenied(r)
            /\ r.nstore = 0
            /\ r.pend = {}
            /\ ~r.posted

\* C8 witness: a denied callback whose state is the one of a flow in flight,
\* with a code, while the state record of that flow is in Redis.
C8_Witness ==
    \E r \in Callbacks :
        /\ r.request.error # ""
        /\ r.request.code # ""
        /\ r.request.state \in Produced
        /\ Returned(r)
        /\ redis[Key(r.prov, "state", r.request.state.data.org_id,
                     r.request.state.data.user_id)].present

\* C9: authorize_*(user_id, org_id) with an empty user_id or org_id fails with
\* InvalidRequest, issues no Redis command and returns no URL.
C9_EmptyIdsRejected ==
    \A r \in Procs :
        (r.op = "begin" \/ r.pend # {}) /\ MissingIds(r.user_id, r.org_id) =>
            /\ Returned(r)
            /\ IsInvalidRequest(r)
            /\ r.nstore = 0
            /\ r.pend = {}
            /\ r.out = Null

\* The record of the given kind that the flow with nonce n wrote is in Redis.
HoldsFlow(n, kind) ==
    LET d == issued[n].data
        rec == redis[Key(issued[n].prov, kind, d.org_id, d.user_id)]
    IN  /\ rec.present
        /\ \/ kind = "state" /\ rec.value = d
           \/ kind = "verifier" /\ rec.value = [code_verifier |-> n]

\* C10: authorize_* persists the state and the verifier record as a pair:
\* when it returns a URL it has completed SET and EXPIRE for both keys, and
\* once it has returned without a URL because a write failed, neither
\* record of its flow is in Redis.
C10_PairPersisted ==
    /\ \A r \in Begins : Returned(r) /\ r.result.status = 200 => r.nstore = 4
    /\ \A n \in 1..Len(issued) :
          (/\ ~issued[n].url
           /\ ~\E r \in Begins : r.state = n /\ ~Returned(r))
          => ~HoldsFlow(n, "state") /\ ~HoldsFlow(n, "verifier")

C1_ReplayRejected ==
    \A r \in Callbacks :
        /\ Returned(r) /\ r.posted => r.left \cap {"state", "verifier"} = {}
        /\ Returned(r) /\ r.replay => IsStateExpiredOrUnknown(r)

\* C2: a nonce is single-use: over all callbacks that carry it, at most one
\* token POST is issued.
C2_NonceSingleUse ==
    \A n \in DOMAIN posts : posts[n] <= 1

\* C3: a take that returns the credentials returns the stored payload and has
\* deleted the record, and a take started after another take has returned a
\* payload does not return that payload again.
C3_TakeDeletes ==
    \A r \in Takes :
        Returned(r) /\ r.result.status = 200 =>
            /\ r.out = r.credentials.value
            /\ "credentials" \notin r.left
            /\ r.out \notin r.seen

\* C4: a credentials record is read exactly once: no take returns a payload
\* that a take has returned before, however the takes interleave.
C4_ReadExactlyOnce ==
    \A r \in Takes :
        Returned(r) /\ r.result.status = 200 => ~r.again

\* C7: a callback that has reached the token exchange returns with the state
\* record and the verifier record it validated absent from Redis, whether the
\* POST returned 200, another status, or raised.
C7_CleanupBeforeReturn ==
    \A r \in Callbacks :
        Returned(r) /\ r.posted =>
            /\ "state" \notin r.left
            /\ "verifier" \notin r.left
            /\ r.pend \cap {Task("delete", "state"), Task("delete", "verifier")} = {}

\* C11: a later authorize_* call for the same (provider, user, org) replaces
\* the records of an earlier flow: a callback that carries the state of a
\* flow superseded when it is delivered fails at the lookup or the nonce
\* comparison, issues no token POST and no write or delete on Redis, so the
\* records of the newer flow stay as they are for its own callback.
C11_SupersededFlowFails ==
    \A r \in Callbacks :
        r.stale =>
            /\ ~r.posted
            /\ r.pend \subseteq LookupTasks(r.prov)
            /\ Returned(r) =>
                \/ IsStateMismatch(r)
                \/ IsStateExpiredOrUnknown(r)
                \/ r.result = Result(500, Detail[r.prov].lookup_error)

\* C11 witness: the callback of the superseded flow has been turned away with
\* a mismatch while the callback of the newer flow, which it read the nonce
\* of, is past the nonce comparison.
C11_Witness ==
    \E r, q \in Callbacks :
        /\ r.stale
        /\ Returned(r)
        /\ IsStateMismatch(r)
        /\ r.saved_state.present
        /\ q.state = r.saved_state.value.state
        /\ q.posted
        /\ ~q.stale

\* The (user_id, org_id) whose flow wrote a record of the given kind.
Owner(kind, value) ==
    LET n == CASE kind = "state" -> value.state
               [] kind = "verifier" -> value.code_verifier
               [] kind = "credentials" -> value.access_token[1]
    IN  <<issued[n].data.user_id, issued[n].data.org_id>>

\* C12: flows of different (provider, user, org) tuples are independent, also
\* for ids that contain ':': the record found under the state, verifier or
\* credentials key of a tuple was written by a flow of that tuple, never by a
\* begin, callback or take of another tuple.
C12_TuplesIndependent ==
    \A a \in ColonInputs, kind \in Kinds :
        LET rec == redis[Key(module, kind, a[2], a[1])]
        IN  /\ rec.present
            /\ kind = "credentials" => "access_token" \in DOMAIN rec.value
            => Owner(kind, rec.value) = a

\* C13: a callback whose token POST was answered 200 with a payload without
\* access_token stores no credentials and fails with InvalidTokenResponse
\* (or with an internal error, when a Redis command of it raised); every
\* credentials record in Redis contains an access_token.
C13_NoTokenNoCredentials ==
    /\ \A r \in Callbacks :
          /\ r.resp.kind = "response"
          /\ r.resp.status = 200
          /\ "access_token" \notin DOMAIN r.resp.body
          => /\ r.pc # "persist"
             /\ Returned(r) => IsInvalidTokenResponse(r) \/ r.result.status = 500
    /\ \A a \in UserIds \X OrgIds :
          LET rec == redis[Key(module, "credentials", a[2], a[1])]
          IN  rec.present => "access_token" \in DOMAIN rec.value

\* C14: a callback whose token POST raised httpx.RequestError fails with
\* UpstreamUnavailable, has issued that one POST only and stores no
\* credentials.
C14_NetworkFailureIsUpstreamUnavailable ==
    \A r \in Callbacks :
        r.resp.kind = "RequestError" =>
            /\ r.posted
            /\ Task("post", "token") \notin r.pend
            /\ r.pc # "persist"
            /\ Returned(r) => IsUpstreamUnavailable(r)

\* C16: a callback whose state parameter does not decode, decodes to JSON
\* that is no object, or lacks one of state, user_id, org_id fails with
\* MalformedState in the step that starts it, with no Redis command and no
\* token POST.
C16_MalformedStateRejected ==
    \A r \in Callbacks :
        /\ ~HasError(r.request)
        /\ ~MissingParam(r.request)
        /\ \/ ~Decodes(r.request.state)
           \/ ~IsObject(r.request.state)
           \/ Incomplete(r.request.state.data)
        => /\ Returned(r)
           /\ IsMalformedState(r)
           /\ r.nstore = 0
           /\ r.pend = {}
           /\ ~r.posted

\* C17: every record in Redis carries the time to live of 600 seconds, in
\* every reachable state of the store.
C17_EveryRecordHasTtl ==
    \A k \in DOMAIN redis :
        redis[k].present => redis[k].ttl = TEMP_TTL_SECONDS

\* C18: an abandoned flow cleans itself up: once no more handler is called,
\* the state, verifier and credentials records eventually are all absent
\* from Redis, and stay absent.
C18_AbandonedRecordsExpire ==
    <>[](\A k \in DOMAIN redis : ~redis[k].present)

\* C15: for every valid FlowState s (state, user_id, org_id non-empty), the
\* callback's decoding of the state that authorize_* put into the URL is s.
C15_DecodeEncode ==
    call.pc = "decoded" => call.decoded = [ok |-> TRUE, data |-> call.data]

\* The items of every page of the listing, in page order.
RECURSIVE AllPages(_, _, _)
AllPages(provider, pages, i) ==
    IF i > Len(pages) THEN <<>>
    ELSE Items(provider, PageEntries(pages, i), call.bad)
         \o AllPages(provider, pages, i + 1)

IsListed(item) == item.type # "Table"

FetchedAll ==
    /\ call.pc = "done"
    /\ call.token
    /\ \A i \in 1..Len(call.statuses) : call.statuses[i] = 200
    /\ \A i \in 1..Len(call.tables) : call.tables[i] = 200

\* C19: when every request is answered 200, fetch returns the items of all
\* pages in page order, having issued one request per page, each with the
\* marker of the page before, and none after the page without a marker.
C19_AllPagesInOrder ==
    FetchedAll =>
        /\ call.result.kind = "items"
        /\ SelectSeq(call.result.items, IsListed) = AllPages(module, call.pages, 1)
        /\ call.sent = [i \in 1..Len(call.pages) |-> IF i = 1 THEN NoMarker ELSE Marker(i)]

\* C20: a listing request answered with a status other than 200 ends the
\* fetch with an error that carries that status, on whatever page it
\* happens, never with a list of items.
C20_Non200Aborts ==
    \A i \in 1..Len(call.statuses) :
        call.statuses[i] # 200 =>
            /\ call.pc = "done"
            /\ i = Len(call.statuses)
            /\ call.result.kind = "HTTPException"
            /\ \/ call.result.status_code = call.statuses[i]
               \/ call.result.upstream = call.statuses[i]

\* Every authorize_* call has finished, with the tasks it started, and no
\* Redis command has raised and no key has expired.
BeginsFinished ==
    /\ faults = 0
    /\ \A r \in Procs :
          /\ r.op = "begin" => Returned(r)
          /\ \A kind \in {"state", "verifier"} :
                r.pend \cap {Task("set", kind), Task("expire", kind)} = {}

\* C27: once all authorize_* calls for a (provider, user, org) have finished,
\* the state record and the verifier record in Redis were written by the same
\* call, so a callback with the stored nonce is exchanged with the verifier
\* whose challenge is in that flow's URL.
C27_PairFromSameBegin ==
    BeginsFinished =>
        \A a \in UserIds \X OrgIds :
            LET st == redis[Key(module, "state", a[2], a[1])]
                ver == redis[Key(module, "verifier", a[2], a[1])]
            IN  st.present /\ ver.present => ver.value.code_verifier = st.value.state

\* The nonce of the flow that wrote a state or verifier record.
FlowOf(kind, value) == IF kind = "state" THEN value.state ELSE value.code_verifier

\* A delete task of an invocation removes the record under key k, and the
\* record is the one of the flow that invocation validated.
DeletesOwn(k) ==
    \E r \in Procs, kind \in {"state", "verifier"} :
        /\ Task("delete", kind) \in r.pend
        /\ k = KeyOf(r, kind)
        /\ FlowOf(kind, redis[k].value) = r.state

\* C26: the cleanup of a callback deletes only the records of the flow it
\* validated: a state or verifier record that a delete removes carries the
\* nonce of the callback that issued the delete, also when another
\* authorize_* call for the same tuple wrote its records in between.
C26_CleanupDeletesOwnFlow ==
    [][\A a \in UserIds \X OrgIds, kind \in {"state", "verifier"} :
          LET k == Key(module, kind, a[2], a[1])
          IN  redis[k].present /\ ~redis'[k].present /\ faults' = faults
              => DeletesOwn(k)]_vars

\* The callback fails one of the checks that precede the token exchange:
\* error parameter, missing code or state, malformed state, absent state or
\* verifier record, nonce mismatch.
FailsValidation(r) ==
    \/ HasError(r.request)
    \/ MissingParam(r.request)
    \/ ~Decodes(r.request.state)
    \/ ~IsObject(r.request.state)
    \/ Incomplete(r.request.state.data)
    \/ /\ r.pc \notin {"start", "lookup"}
       /\ \/ StateMissing(r)
          \/ r.saved_state.value.state # r.request.state.data.state

\* C30: a callback that fails validation leaves the store as it is: it has
\* issued no token POST and no Redis command besides the reads of its lookup,
\* so that a callback with a wrong nonce leaves the records of the tuple's
\* flow in flight for the legitimate callback.
C30_FailedValidationKeepsStore ==
    \A r \in Callbacks :
        FailsValidation(r) =>
            /\ ~r.posted
            /\ r.token = 0
            /\ r.pc \in {"lookup", "done"}
            /\ r.pend \subseteq LookupTasks(r.prov)
            /\ r.nstore <= Cardinality(LookupTasks(r.prov))

\* C30 witness: a callback with a wrong nonce has been turned away after it
\* read the state record of the flow in flight, and the callback of that flow
\* is past the nonce comparison.
C30_Witness ==
    \E r, q \in Callbacks :
        /\ r.request.state.data.state = ForgedNonce
        /\ Returned(r)
        /\ r.saved_state.present
        /\ IsStateMismatch(r)
        /\ q.posted
        /\ q.state = r.saved_state.value.state

\* C29: a credentials record is found under (provider, org_id, user_id) only
\* if a callback that decoded a state naming that org_id and user_id passed
\* the nonce comparison and was answered 200 by the token endpoint: the
\* record holds the body of a 200 answer, and its token was issued to a POST
\* made for a flow of that very tuple.
C29_CredentialsOnlyFromCallback ==
    \A a \in (UserIds \X OrgIds) \cup ColonInputs :
        LET k == Key(module, "credentials", a[2], a[1])
            rec == redis[k]
        IN  k \in DOMAIN redis /\ rec.present =>
                /\ rec.value # ErrorBody
                /\ "access_token" \in DOMAIN rec.value =>
                      LET n == rec.value.access_token[1]
                      IN  /\ n \in 1..Len(issued)
                          /\ posts[n] >= rec.value.access_token[2]
                          /\ <<issued[n].data.user_id, issued[n].data.org_id>> = a

\* C28: on the undisturbed path the callback succeeds, the state and the
\* verifier record of the tuple are absent when it has returned, the
\* credentials record holds exactly the token payload, and the take that
\* follows returns that payload (and leaves no credentials record).
C28_UndisturbedPath ==
    /\ \A r \in Callbacks :
          Returned(r) =>
              LET a == issued[1].data
              IN  /\ r.result.status = 200
                  /\ ~redis[Key(module, "state", a.org_id, a.user_id)].present
                  /\ ~redis[Key(module, "verifier", a.org_id, a.user_id)].present
                  /\ redis[Key(module, "credentials", a.org_id, a.user_id)]
                        = Record(TokenBody(1, 1), TEMP_TTL_SECONDS)
    /\ \A t \in Takes :
          Returned(t) =>
              /\ t.result.status = 200
              /\ t.out = TokenBody(1, 1)
              /\ ~redis[KeyOf(t, "credentials")].present

\* What the specification says the authorization URL embeds.
UrlParameters ==
    {"client_id", "response_type", "redirect_uri", "state", "code_challenge",
     "code_challenge_method", "scope"}

\* C25: for non-empty user_id and org_id, the URL authorize_* returns embeds
\* client_id, response_type=code, redirect_uri, the encoded state, a
\* code_challenge, code_challenge_method=S256 and the scope; its state
\* decodes to the given user_id and org_id with the nonce written to the
\* state record, and its code_challenge is the challenge of the verifier
\* written to the verifier record.
C25_UrlEmbedsFlow ==
    \A r \in Begins :
        Returned(r) /\ r.result.status = 200 /\ ~MissingIds(r.user_id, r.org_id) =>
            /\ UrlParameters \subseteq DOMAIN r.out
            /\ r.out.response_type = "code"
            /\ r.out.code_challenge_method = "S256"
            /\ Decodes(r.out.state)
            /\ DecodedData(r.prov, r.out.state.data) = ValueOf(r, "state")
            /\ r.out.code_challenge = Challenge(ValueOf(r, "verifier").code_verifier)

\* The raw entries of the pages the fetch has asked for, in the order asked.
RECURSIVE SentEntries(_)
SentEntries(sent) ==
    IF sent = <<>> THEN <<>>
    ELSE PageEntries(call.pages, PageOf(Head(sent))) \o SentEntries(Tail(sent))

\* C21: an entry on which the normalisation raises is skipped, and only that
\* entry: when every request is answered 200 the fetch does not fail, and the
\* listed items it returns are the normalised forms of all other entries it
\* received, in their order.
C21_MalformedItemSkipped ==
    FetchedAll =>
        /\ call.result.kind = "items"
        /\ SelectSeq(call.result.items, IsListed)
              = Items(module, SentEntries(call.sent), call.bad)

\* The fetch has returned a batch of items.
ReturnedBatch == call.pc = "done" /\ call.result.kind = "items"

\* C22: the ids of the items of a returned batch are pairwise distinct, also
\* when an Airtable base and one of its tables carry the same native id.
C22_IdsDistinct ==
    ReturnedBatch =>
        \A i, j \in 1..Len(call.result.items) :
            i # j => call.result.items[i].id # call.result.items[j].id

\* C22 witness: a returned Airtable batch holds a Base item and a Table item
\* made from the same native id.
C22_Witness ==
    /\ ReturnedBatch
    /\ \E i, j \in 1..Len(call.result.items) :
          /\ call.result.items[i].type = "Base"
          /\ call.result.items[j].type = "Table"
          /\ call.result.items[i].id[1] = call.result.items[j].id[1]

\* C23: in a returned Airtable batch every Table item follows a Base item
\* whose id is its parent_id and whose name is its parent_path_or_name, and
\* for every Base item the tables of all pages of the base's table listing
\* are in the batch.
C23_TablesLinkedAndComplete ==
    ReturnedBatch =>
        LET items == call.result.items
        IN  /\ \A j \in 1..Len(items) :
                  items[j].type = "Table" =>
                      \E i \in 1..(j - 1) :
                          /\ items[i].type = "Base"
                          /\ items[i].id = items[j].parent_id
                          /\ items[i].name = items[j].parent_path_or_name
            /\ \A i \in 1..Len(items), p \in 1..call.tpages :
                  items[i].type = "Base" =>
                      LET base == items[i].id[1]
                          tables == TableItems(base, TableEntries(base, p))
                      IN  \A k \in 1..Len(tables) :
                              \E j \in 1..Len(items) : items[j] = tables[k]

\* C24: a Notion item whose properties.Name.title[0].plain_text is t is
\* normalised to an item with name t, whatever other keys the title element
\* carries.
C24_TitleIsName ==
    call.pc = "item" => call.name = Str(call.title)

====
